---- MODULE Spec2Model ----
(***************************************************************************)
(* remove-print-statements: the RemovePrintStatements codemod, the per-file *)
(* driver check_file, the Report and the command main.                      *)
(*                                                                          *)
(* Source text is a sequence of logical lines.  A logical line is a record  *)
(* [indent, head, body]: head is "" for a simple statement line and the     *)
(* compound statement's kind for a header; body is the sequence of small    *)
(* statements on the line (for a header: the statements after the colon,    *)
(* empty when an indented block follows).  A small statement carries the    *)
(* number of physical lines its text spans (lines).                         *)
(***************************************************************************)
EXTENDS Integers, Sequences, FiniteSets, TLC

\* Bounds of the explored inputs.
MaxSize == 3
MaxDepth == 2
MaxRuns == 2
MaxFiles == 3
MaxEntries == 3
MaxLine == 4

(***************************************************************************)
(* Expressions and small statements (libcst node shapes).                   *)
(***************************************************************************)
Name(v) == [type |-> "Name", value |-> v]
Attribute(obj, attr) == [type |-> "Attribute", value |-> Name(obj), attr |-> Name(attr)]
Call(f, n) == [type |-> "Call", func |-> f, args |-> n]
BinaryOperation(l) == [type |-> "BinaryOperation", left |-> l]
Integer == [type |-> "Integer", value |-> "5"]
Expr(v, h) == [type |-> "Expr", value |-> v, lines |-> h]
Assign(t, v) == [type |-> "Assign", target |-> Name(t), value |-> v, lines |-> 1]

\* print()
PrintCall == Expr(Call(Name("print"), 0), 1)
\* print(a,
\*       b)       one statement, two physical lines
PrintMulti == Expr(Call(Name("print"), 2), 2)
\* x.print(1)
AttrCall == Expr(Call(Attribute("x", "print"), 1), 1)
\* log(1)
OtherCall == Expr(Call(Name("log"), 1), 1)
\* print()()
CallOfCall == Expr(Call(Call(Name("print"), 0), 0), 1)
\* a = print()
AssignedCall == Assign("a", Call(Name("print"), 0))
\* print() + 5
NestedCall == Expr(BinaryOperation(Call(Name("print"), 0)), 1)
\* print
BareName == Expr(Name("print"), 1)
\* a = 5
AssignInt == Assign("a", Integer)
\* pass
PassStmt == [type |-> "Pass", lines |-> 1]
\* print("hello"      text the parser rejects (test_transform_failure)
Unparsable == [type |-> "Unparsable", lines |-> 1]

CoreSmall == {PrintCall, AssignInt}
AllSmall == {PrintCall, PrintMulti, AttrCall, OtherCall, CallOfCall, AssignedCall,
             NestedCall, BareName, AssignInt, PassStmt}
Kinds == {"If"}

(***************************************************************************)
(* The matcher.                                                             *)
(***************************************************************************)
MatchName(node, v) == node.type = "Name" /\ node.value = v
\* Faulty variant: m.Call() with no func, any call matches.
MatchCall_AnyCallee(node) == node.type = "Call"
MatchCall(node) == node.type = "Call" /\ MatchName(node.func, "print")
PRINT_STATEMENT(node) == node.type = "Expr" /\ MatchCall(node.value)

(***************************************************************************)
(* Syntax trees.                                                            *)
(***************************************************************************)
SimpleStatementLine(b) == [type |-> "SimpleStatementLine", body |-> b]
SimpleStatementSuite(b) == [type |-> "SimpleStatementSuite", body |-> b]
IndentedBlock(b) == [type |-> "IndentedBlock", body |-> b]
Compound(k, suite) == [type |-> k, body |-> suite]
Line(i, h, b) == [indent |-> i, head |-> h, body |-> b]

RECURSIVE SeqsOf(_, _)
SeqsOf(S, n) == IF n = 0 THEN {<<>>} ELSE {Append(s, x) : s \in SeqsOf(S, n - 1), x \in S}

\* Statements holding exactly n small statements, nested at most d deep, and
\* statement sequences holding n small statements in all.
RECURSIVE Stmts(_, _, _), Bodies(_, _, _)
Stmts(S, n, d) ==
    {SimpleStatementLine(b) : b \in SeqsOf(S, n)}
    \cup (IF d = 0 THEN {} ELSE
            {Compound(k, SimpleStatementSuite(b)) : k \in Kinds, b \in SeqsOf(S, n)}
            \cup {Compound(k, IndentedBlock(b)) : k \in Kinds, b \in Bodies(S, n, d - 1)})
Bodies(S, n, d) ==
    IF n = 0 THEN {<<>>}
    ELSE UNION {{<<s>> \o r : s \in Stmts(S, j, d), r \in Bodies(S, n - j, d)} : j \in 1..n}

(***************************************************************************)
(* Code generation (libcst): an empty statement list is rendered as pass.   *)
(***************************************************************************)
CodegenSmalls(body) == IF body = <<>> THEN <<PassStmt>> ELSE body

RECURSIVE CodegenBody(_, _)
\* Faulty variant: an indented block with no statement is rendered as nothing.
CodegenStatement_NoPass(stmt, indent) ==
    IF stmt.type = "SimpleStatementLine"
    THEN <<Line(indent, "", CodegenSmalls(stmt.body))>>
    ELSE IF stmt.body.type = "SimpleStatementSuite"
    THEN <<Line(indent, stmt.type, CodegenSmalls(stmt.body.body))>>
    ELSE <<Line(indent, stmt.type, <<>>)>> \o CodegenBody(stmt.body.body, indent + 1)
CodegenStatement(stmt, indent) ==
    IF stmt.type = "SimpleStatementLine"
    THEN <<Line(indent, "", CodegenSmalls(stmt.body))>>
    ELSE IF stmt.body.type = "SimpleStatementSuite"
    THEN <<Line(indent, stmt.type, CodegenSmalls(stmt.body.body))>>
    ELSE <<Line(indent, stmt.type, <<>>)>>
         \o (IF stmt.body.body = <<>>
             THEN <<Line(indent + 1, "", <<PassStmt>>)>>
             ELSE CodegenBody(stmt.body.body, indent + 1))
CodegenBody(body, indent) ==
    IF body = <<>> THEN <<>>
    ELSE CodegenStatement(Head(body), indent) \o CodegenBody(Tail(body), indent)
Codegen(body) == CodegenBody(body, 0)

(***************************************************************************)
(* Parsing (libcst): logical lines to a tree, by indentation.  The parse    *)
(* fails on text it cannot read, on an unexpected indent, on a line with no *)
(* statement, and on a header that no indented block follows.               *)
(***************************************************************************)
ParseFail == [ok |-> FALSE, body |-> <<>>, next |-> 0]

RECURSIVE ParseBody(_, _, _)
ParseBody(lines, i, d) ==
    IF i > Len(lines) \/ lines[i].indent < d
    THEN [ok |-> TRUE, body |-> <<>>, next |-> i]
    ELSE LET ln == lines[i] IN
         IF ln.indent > d \/ (\E k \in 1..Len(ln.body) : ln.body[k].type = "Unparsable")
         THEN ParseFail
         ELSE IF ln.head = "" /\ ln.body = <<>>
         THEN ParseFail
         ELSE IF ln.head = "" \/ ln.body # <<>>
         THEN LET stmt == IF ln.head = ""
                          THEN SimpleStatementLine(ln.body)
                          ELSE Compound(ln.head, SimpleStatementSuite(ln.body))
                  rest == ParseBody(lines, i + 1, d)
              IN IF rest.ok
                 THEN [ok |-> TRUE, body |-> <<stmt>> \o rest.body, next |-> rest.next]
                 ELSE ParseFail
         ELSE LET inner == ParseBody(lines, i + 1, d + 1) IN
              IF ~inner.ok \/ inner.body = <<>>
              THEN ParseFail
              ELSE LET rest == ParseBody(lines, inner.next, d) IN
                   IF rest.ok
                   THEN [ok |-> TRUE,
                         body |-> <<Compound(ln.head, IndentedBlock(inner.body))>> \o rest.body,
                         next |-> rest.next]
                   ELSE ParseFail

parse_module(code) ==
    LET r == ParseBody(code, 1, 0) IN
    [ok |-> r.ok /\ r.next = Len(code) + 1, body |-> r.body]

(***************************************************************************)
(* RemovePrintStatements.  print_statements is a Python dict: a sequence of *)
(* [key, value] entries in insertion order; storing under a key already     *)
(* present replaces the value and keeps the entry's place.                  *)
(***************************************************************************)
DictSet(d, k, v) ==
    IF \E i \in 1..Len(d) : d[i].key = k
    THEN [i \in 1..Len(d) |-> IF d[i].key = k THEN [key |-> k, value |-> v] ELSE d[i]]
    ELSE Append(d, [key |-> k, value |-> v])

RemoveFromParent == [type |-> "RemovalSentinel"]

\* RemovePrintStatements.__init__
RemovePrintStatements(dry, verb) ==
    [dry_run |-> dry, verbose |-> verb, print_statement_count |-> 0,
     print_statements |-> <<>>]

\* The text of a node, code_for_node: the statement as written.
code_for_node(node) == node

\* Faulty variant: the count is incremented inside "if self.verbose".
visit_Expr_CountsWhenVerbose(self, node, line) ==
    IF self.verbose
    THEN [self EXCEPT !.print_statement_count = @ + 1,
                      !.print_statements = DictSet(@, line, code_for_node(node))]
    ELSE self
\* Faulty variant: the statement is recorded whatever verbose is.
visit_Expr_RecordsAlways(self, node, line) ==
    [self EXCEPT !.print_statement_count = @ + 1,
                 !.print_statements = DictSet(@, line, code_for_node(node))]
\* Faulty variant: setdefault, the first statement recorded for a line stays.
visit_Expr_KeepsFirst(self, node, line) ==
    LET counted == [self EXCEPT !.print_statement_count = @ + 1] IN
    IF self.verbose /\ ~(\E i \in 1..Len(self.print_statements) :
                           self.print_statements[i].key = line)
    THEN [counted EXCEPT !.print_statements = DictSet(@, line, code_for_node(node))]
    ELSE counted
\* visit_Expr; line is the PositionProvider start line of node.
visit_Expr(self, node, line) ==
    LET counted == [self EXCEPT !.print_statement_count = @ + 1] IN
    IF self.verbose
    THEN [counted EXCEPT !.print_statements = DictSet(@, line, code_for_node(node))]
    ELSE counted

\* Faulty variant: dry_run is not consulted.
leave_Expr_AlwaysRemoves(self, original_node, updated_node) == RemoveFromParent
\* Faulty variant: verbose is taken for a preview flag too.
leave_Expr_KeepsWhenVerbose(self, original_node, updated_node) ==
    IF self.dry_run \/ self.verbose THEN updated_node ELSE RemoveFromParent
\* leave_Expr
leave_Expr(self, original_node, updated_node) ==
    IF self.dry_run THEN updated_node ELSE RemoveFromParent

\* @m.call_if_inside(PRINT_STATEMENT): the hook runs for a node inside a
\* statement the matcher accepts; no statement lies inside an expression
\* statement, so that is the accepted statement itself.
call_if_inside(node) == PRINT_STATEMENT(node)

on_visit(self, node, line) ==
    IF call_if_inside(node) THEN visit_Expr(self, node, line) ELSE self

on_leave(self, original_node, updated_node) ==
    IF call_if_inside(original_node)
    THEN leave_Expr(self, original_node, updated_node)
    ELSE updated_node

\* The small statements of one logical line, left to right; line is the
\* physical line the first of them starts on.
RECURSIVE VisitSmalls(_, _, _)
VisitSmalls(self, body, line) ==
    IF body = <<>> THEN [self |-> self, body |-> <<>>, line |-> line]
    ELSE LET node == Head(body)
             entered == on_visit(self, node, line)
             new == on_leave(entered, node, node)
             rest == VisitSmalls(entered, Tail(body), line + node.lines - 1)
         IN [self |-> rest.self,
             body |-> IF new = RemoveFromParent THEN rest.body ELSE <<new>> \o rest.body,
             line |-> rest.line]

\* SimpleStatementLine._is_removable
IsRemovable(stmt) == stmt.type = "SimpleStatementLine" /\ stmt.body = <<>>

\* A statement list (visit_body_sequence): a child that became removable is
\* dropped from its parent.
RECURSIVE VisitBody(_, _, _)
VisitStatement(self, stmt, line) ==
    IF stmt.type = "SimpleStatementLine"
    THEN LET r == VisitSmalls(self, stmt.body, line) IN
         [self |-> r.self, node |-> SimpleStatementLine(r.body), line |-> r.line + 1]
    ELSE IF stmt.body.type = "SimpleStatementSuite"
    THEN LET r == VisitSmalls(self, stmt.body.body, line) IN
         [self |-> r.self, node |-> Compound(stmt.type, SimpleStatementSuite(r.body)),
          line |-> r.line + 1]
    ELSE LET r == VisitBody(self, stmt.body.body, line + 1) IN
         [self |-> r.self, node |-> Compound(stmt.type, IndentedBlock(r.body)),
          line |-> r.line]
VisitBody(self, body, line) ==
    IF body = <<>> THEN [self |-> self, body |-> <<>>, line |-> line]
    ELSE LET first == VisitStatement(self, Head(body), line)
             rest == VisitBody(first.self, Tail(body), first.line)
         IN [self |-> rest.self,
             body |-> IF ~IsRemovable(Head(body)) /\ IsRemovable(first.node)
                      THEN rest.body
                      ELSE <<first.node>> \o rest.body,
             line |-> rest.line]

\* transform_module(codemod, code=code): the result and the codemod after it.
TransformFailure == [type |-> "TransformFailure", code |-> <<>>]
TransformSuccess(code) == [type |-> "TransformSuccess", code |-> code]

transform_module(self, code) ==
    LET tree == parse_module(code) IN
    IF ~tree.ok THEN [result |-> TransformFailure, codemod |-> self]
    ELSE LET r == VisitBody(self, tree.body, 1) IN
         [result |-> TransformSuccess(Codegen(r.body)), codemod |-> r.self]

(***************************************************************************)
(* format_verbose_output.  A text is a sequence of lines; "" is <<>>.       *)
(***************************************************************************)
\* statement.splitlines(): the physical lines of a statement's text.
splitlines(statement) == [j \in 1..statement.lines |-> [of |-> statement, part |-> j]]

RECURSIVE VerboseLines(_)
\* Faulty variant: every line of a statement gets the statement's start line.
VerboseLines_NumbersTheStart(print_statements) ==
    IF print_statements = <<>> THEN <<>>
    ELSE LET start == Head(print_statements).key
             text == splitlines(Head(print_statements).value)
         IN [j \in 1..Len(text) |-> [lineno |-> start, line |-> text[j]]]
            \o VerboseLines(Tail(print_statements))
VerboseLines(print_statements) ==
    IF print_statements = <<>> THEN <<>>
    ELSE LET start == Head(print_statements).key
             text == splitlines(Head(print_statements).value)
         IN [j \in 1..Len(text) |-> [lineno |-> start + j - 1, line |-> text[j]]]
            \o VerboseLines(Tail(print_statements))

format_verbose_output(filename, print_statements) ==
    IF Len(print_statements) = 0 THEN <<>>
    ELSE <<[lineno |-> 0, line |-> filename]>> \o VerboseLines(print_statements)

(***************************************************************************)
(* Report.                                                                  *)
(***************************************************************************)
Report(dry, verb) ==
    [dry_run |-> dry, verbose |-> verb, file_count |-> 0,
     print_statement_count |-> 0, failure_count |-> 0]

\* Report.return_code
return_code(self) ==
    IF self.failure_count # 0 THEN 123
    ELSE IF self.file_count # 0 /\ self.dry_run THEN 1
    ELSE 0

\* Report.__str__: the parts of the summary line, joined by ", ".
Plural(n) == IF n > 1 THEN "s" ELSE ""
ReportStr(self) ==
    LET transformed == IF self.dry_run THEN "would be transformed" ELSE "transformed"
        removed == IF self.dry_run THEN "would be removed" ELSE "removed"
        failed == IF self.dry_run THEN "would fail to transform" ELSE "failed to transform"
        p1 == IF self.file_count # 0
              THEN <<[n |-> self.file_count, noun |-> "file", s |-> Plural(self.file_count),
                      what |-> transformed]>>
              ELSE <<>>
        p2 == IF self.print_statement_count # 0
              THEN <<[n |-> self.print_statement_count, noun |-> "print statement",
                      s |-> Plural(self.print_statement_count), what |-> removed]>>
              ELSE <<>>
        p3 == IF self.failure_count # 0
              THEN <<[n |-> self.failure_count, noun |-> "file",
                      s |-> Plural(self.failure_count), what |-> failed]>>
              ELSE <<>>
    IN [newline |-> self.verbose /\ self.file_count # 0, summary |-> p1 \o p2 \o p3]

(***************************************************************************)
(* State.                                                                   *)
(*   source, codemod, runs: one source text, the RemovePrintStatements      *)
(*     instance being used on it, and the record of the finished            *)
(*     transform_module calls (input, flags, result, count, positions).     *)
(*   filenames, ignore, dry_run, verbose: the arguments of main.            *)
(*   disk: the content of each file; disk0: the content before the run.     *)
(*   report: the Report; idx: the position of main's loop in filenames.     *)
(*   pc: "main" at entry, "loop" in the loop, "exited" after ctx.exit,      *)
(*     "raised" after an exception left main.                               *)
(*   exit_code: the process's exit status (NoExit while running).           *)
(*   stdout: what was echoed.  log: one entry per loop iteration.           *)
(***************************************************************************)
VARIABLES source, codemod, runs,
          filenames, ignore, dry_run, verbose, disk, disk0, report, idx, pc,
          exit_code, stdout, log,
          fname, mapping, formatted
tvars == <<source, codemod, runs>>
mvars == <<filenames, ignore, dry_run, verbose, disk, disk0, report, idx, pc,
           exit_code, stdout, log>>
vars == <<source, codemod, runs, filenames, ignore, dry_run, verbose, disk, disk0,
          report, idx, pc, exit_code, stdout, log, fname, mapping, formatted>>
fvars == <<fname, mapping, formatted>>

NoCodemod == [dry_run |-> FALSE, verbose |-> FALSE, print_statement_count |-> -1,
              print_statements |-> <<>>]
NoExit == -1

\* Source texts: the rendering of every tree within the bounds, of the
\* statement shapes the matcher must tell apart, and three malformed texts.
Modules(size, depth) == UNION {Bodies(CoreSmall, n, depth) : n \in 0..size}
ShapeModules == Bodies(AllSmall, 1, 1) \cup Bodies(AllSmall, 2, 0)
Malformed == {<<Line(0, "", <<Unparsable>>)>>,
              <<Line(0, "", <<AssignInt>>), Line(1, "", <<PrintCall>>)>>,
              <<Line(0, "If", <<>>), Line(0, "", <<PrintCall>>)>>}
Sources(size, depth) ==
    {Codegen(m) : m \in Modules(size, depth) \cup ShapeModules} \cup Malformed

\* The files of a run and the texts they may hold.
Files == {"hello1.py", "hello2.py"}
FileTexts ==
    {<<Line(0, "", <<AssignInt>>)>>,
     <<Line(0, "", <<AssignInt>>), Line(0, "", <<PrintCall>>)>>,
     <<Line(0, "If", <<>>), Line(1, "", <<PrintMulti, PrintCall>>)>>,
     <<Line(0, "", <<Unparsable>>)>>}

NoTransformer ==
    /\ source = <<>>
    /\ codemod = NoCodemod
    /\ runs = <<>>

NoRun ==
    /\ filenames = <<>>
    /\ ignore = {}
    /\ dry_run = FALSE
    /\ verbose = FALSE
    /\ disk = [f \in Files |-> <<>>]
    /\ disk0 = disk
    /\ report = Report(FALSE, FALSE)
    /\ idx = 0
    /\ pc = "idle"
    /\ exit_code = NoExit
    /\ stdout = <<>>
    /\ log = <<>>

\* format_verbose_output not called: no file name, no mapping, no text.
NotFormatted == [done |-> FALSE, text |-> <<>>]
NoFormat ==
    /\ fname = ""
    /\ mapping = <<>>
    /\ formatted = NotFormatted

(***************************************************************************)
(* The transformer on one source text.                                      *)
(***************************************************************************)
InitT ==
    /\ source \in Sources(MaxSize, MaxDepth)
    /\ codemod = NoCodemod
    /\ runs = <<>>
    /\ NoRun
    /\ NoFormat

\* codemod = RemovePrintStatements(context, dry_run=..., verbose=...)
Construct(dry, verb) ==
    /\ codemod = NoCodemod
    /\ Len(runs) < MaxRuns
    /\ codemod' = RemovePrintStatements(dry, verb)
    /\ UNCHANGED <<source, runs>>
    /\ UNCHANGED mvars
    /\ UNCHANGED fvars

\* transform_module(codemod, code=code) on the source text or on the text
\* the previous call returned.
Transform(code) ==
    /\ codemod # NoCodemod
    /\ \E t \in {transform_module(codemod, code)} :
       runs' = Append(runs, [input |-> code,
                             dry_run |-> codemod.dry_run,
                             verbose |-> codemod.verbose,
                             result |-> t.result,
                             print_statement_count |-> t.codemod.print_statement_count,
                             print_statements |-> t.codemod.print_statements])
    /\ codemod' = NoCodemod
    /\ UNCHANGED source
    /\ UNCHANGED mvars
    /\ UNCHANGED fvars

Inputs ==
    {source} \cup {runs[i].result.code : i \in {j \in 1..Len(runs) :
                                                runs[j].result.type = "TransformSuccess"}}

NextT ==
    \/ \E dry \in BOOLEAN, verb \in BOOLEAN : Construct(dry, verb)
    \/ \E code \in Inputs : Transform(code)

SpecT == InitT /\ [][NextT]_vars

(***************************************************************************)
(* main and check_file.                                                     *)
(***************************************************************************)
Init ==
    /\ NoTransformer
    /\ NoFormat
    /\ filenames \in UNION {SeqsOf(Files, n) : n \in 0..MaxFiles}
    /\ ignore \in SUBSET Files
    /\ dry_run \in BOOLEAN
    /\ verbose \in BOOLEAN
    /\ disk \in [Files -> FileTexts]
    /\ disk0 = disk
    /\ report = Report(FALSE, FALSE)
    /\ idx = 0
    /\ pc = "main"
    /\ exit_code = NoExit
    /\ stdout = <<>>
    /\ log = <<>>

\* A log entry: the file name at position idx, what became of it, the number
\* of matches, the Report before and after, the file's text before and after,
\* and whether it was written back ("no", "yes", or "failed": the write raised).
Entry(i, f, outcome, count, before, after, code, left, written) ==
    [idx |-> i, filename |-> f, outcome |-> outcome, count |-> count,
     before |-> before, after |-> after, code |-> code, left |-> left,
     written |-> written]

\* main, lines 284-287: no file names, exit 0; otherwise a fresh Report.
MainStart ==
    /\ pc = "main"
    /\ IF Len(filenames) = 0
       THEN /\ pc' = "exited"
            /\ exit_code' = 0
            /\ UNCHANGED <<report, idx>>
       ELSE /\ report' = Report(dry_run, verbose)
            /\ idx' = 1
            /\ pc' = "loop"
            /\ UNCHANGED exit_code
    /\ UNCHANGED <<filenames, ignore, dry_run, verbose, disk, disk0, stdout, log>>
    /\ UNCHANGED tvars
    /\ UNCHANGED fvars

\* main, lines 290-291: an ignored file name is passed over.
MainIgnore ==
    /\ pc = "loop"
    /\ idx <= Len(filenames)
    /\ filenames[idx] \in ignore
    /\ idx' = idx + 1
    /\ log' = Append(log, Entry(idx, filenames[idx], "ignored", 0, report, report,
                                disk[filenames[idx]], disk[filenames[idx]], "no"))
    /\ UNCHANGED <<filenames, ignore, dry_run, verbose, disk, disk0, report, pc,
                   exit_code, stdout>>
    /\ UNCHANGED tvars
    /\ UNCHANGED fvars

\* Faulty variant: file_count is incremented for every transformed file.
ReportAfter_CountsEveryFile(rep, result, count) ==
    IF result.type = "TransformSuccess"
    THEN [rep EXCEPT !.file_count = @ + 1, !.print_statement_count = @ + count]
    ELSE [rep EXCEPT !.failure_count = @ + 1]
\* check_file, lines 211-224: the Report after the transform's result.
ReportAfter(rep, result, count) ==
    IF result.type = "TransformSuccess"
    THEN IF count # 0
         THEN [rep EXCEPT !.file_count = @ + 1, !.print_statement_count = @ + count]
         ELSE rep
    ELSE [rep EXCEPT !.failure_count = @ + 1]

\* Faulty variant: dry_run is not consulted.
WritesBack_IgnoresDryRun(result, count, dry) ==
    result.type = "TransformSuccess" /\ count # 0
\* check_file, lines 211-217: whether the file is written back.
WritesBack(result, count, dry) ==
    result.type = "TransformSuccess" /\ count # 0 /\ ~dry

\* check_file, lines 215-216 and 221-223: what the call echoes.
Echoed(filename, result, count, print_statements, verb) ==
    IF result.type = "TransformFailure"
    THEN <<[msg |-> "Failed to transform the file", filename |-> filename]>>
    ELSE IF count # 0 /\ verb
    THEN <<[msg |-> "verbose",
            text |-> format_verbose_output(filename, print_statements)]>>
    ELSE <<>>

Outcome(result) ==
    IF result.type = "TransformFailure" THEN "transform failure" ELSE "success"

\* What open(filename, "w") and f.write(code) may leave in the file: the new
\* text; the old text when open fails; a proper prefix of the new text when
\* the file was truncated and the write failed.
Prefixes(code) == {SubSeq(code, 1, k) : k \in 0..(Len(code) - 1)}

\* main, line 292: check_file(filename, report=report, dry_run=dry_run,
\* verbose=verbose).  Reading may fail; so may writing back, and that
\* exception is caught nowhere: it leaves main and the process ends with
\* a traceback and status 1.
CheckFile ==
    /\ pc = "loop"
    /\ idx <= Len(filenames)
    /\ filenames[idx] \notin ignore
    /\ \E filename \in {filenames[idx]}, readable \in BOOLEAN :
         IF ~readable
         THEN /\ report' = [report EXCEPT !.failure_count = @ + 1]
              /\ stdout' = Append(stdout, [msg |-> "Could not read file",
                                           filename |-> filename])
              /\ log' = Append(log, Entry(idx, filename, "read failure", 0, report,
                                          report', disk[filename], disk[filename], "no"))
              /\ idx' = idx + 1
              /\ UNCHANGED <<disk, pc, exit_code>>
         ELSE \E t \in {transform_module(RemovePrintStatements(dry_run, verbose),
                                         disk[filename])} :
              \E count \in {t.codemod.print_statement_count} :
                /\ report' = ReportAfter(report, t.result, count)
                /\ stdout' = stdout \o Echoed(filename, t.result, count,
                                              t.codemod.print_statements, verbose)
                /\ IF WritesBack(t.result, count, dry_run)
                   THEN \/ /\ disk' = [disk EXCEPT ![filename] = t.result.code]
                           /\ log' = Append(log, Entry(idx, filename, Outcome(t.result),
                                                       count, report, report',
                                                       disk[filename], disk'[filename],
                                                       "yes"))
                           /\ idx' = idx + 1
                           /\ UNCHANGED <<pc, exit_code>>
                        \/ /\ disk' \in {[disk EXCEPT ![filename] = c] :
                                           c \in {disk[filename]}
                                                 \cup Prefixes(t.result.code)}
                           /\ log' = Append(log, Entry(idx, filename, Outcome(t.result),
                                                       count, report, report',
                                                       disk[filename], disk'[filename],
                                                       "failed"))
                           /\ pc' = "raised"
                           /\ exit_code' = 1
                           /\ UNCHANGED idx
                   ELSE /\ log' = Append(log, Entry(idx, filename, Outcome(t.result),
                                                    count, report, report',
                                                    disk[filename], disk[filename], "no"))
                        /\ idx' = idx + 1
                        /\ UNCHANGED <<disk, pc, exit_code>>
    /\ UNCHANGED <<filenames, ignore, dry_run, verbose, disk0>>
    /\ UNCHANGED tvars
    /\ UNCHANGED fvars

\* main, lines 294-299: the end of the loop.
MainEnd ==
    /\ pc = "loop"
    /\ idx > Len(filenames)
    /\ IF ~(report.failure_count # 0 \/ report.file_count # 0)
       THEN /\ stdout' = Append(stdout, [msg |-> "No print statements found. All good to go."])
            /\ exit_code' = 0
       ELSE /\ stdout' = Append(stdout, [msg |-> "summary", text |-> ReportStr(report)])
            /\ exit_code' = return_code(report)
    /\ pc' = "exited"
    /\ UNCHANGED <<filenames, ignore, dry_run, verbose, disk, disk0, report, idx, log>>
    /\ UNCHANGED tvars
    /\ UNCHANGED fvars

Next ==
    \/ MainStart
    \/ MainIgnore
    \/ CheckFile
    \/ MainEnd

Spec == Init /\ [][Next]_vars
(***************************************************************************)
(* format_verbose_output on one mapping.  A mapping is a dict: entries with *)
(* distinct keys, in any insertion order; its values are statement texts of *)
(* one or two physical lines.                                               *)
(***************************************************************************)
Statements == {PrintCall, PrintMulti}
Mappings(n, l) ==
    {d \in UNION {SeqsOf([key : 1..l, value : Statements], k) : k \in 0..n} :
       \A i, j \in 1..Len(d) : i # j => d[i].key # d[j].key}

InitF ==
    /\ fname \in Files
    /\ mapping \in Mappings(MaxEntries, MaxLine)
    /\ formatted = NotFormatted
    /\ NoTransformer
    /\ NoRun

\* format_verbose_output(filename, print_statements)
Format ==
    /\ ~formatted.done
    /\ formatted' = [done |-> TRUE, text |-> format_verbose_output(fname, mapping)]
    /\ UNCHANGED <<fname, mapping>>
    /\ UNCHANGED tvars
    /\ UNCHANGED mvars

NextF == Format

SpecF == InitF /\ [][NextF]_vars

(***************************************************************************)
(* What the properties below read off a source text, line by line, without  *)
(* the tree.                                                                *)
(***************************************************************************)
\* The statement shapes that are a bare print call, and those that are not.
Accepted == {PrintCall, PrintMulti}
Rejected == {AttrCall, OtherCall, CallOfCall, AssignedCall, NestedCall, BareName,
             AssignInt, PassStmt}
IsPrint(s) == s \in Accepted
Kept(body) == SelectSeq(body, LAMBDA s : ~IsPrint(s))

RECURSIVE SmallsOf(_)
SmallsOf(code) == IF code = <<>> THEN <<>> ELSE Head(code).body \o SmallsOf(Tail(code))
Range(seq) == {seq[i] : i \in 1..Len(seq)}
MatchCount(code) == Len(SelectSeq(SmallsOf(code), IsPrint))

\* A text the parser accepts: readable statements, indentation that opens a
\* block after a header with nothing after its colon, and only there.
WellFormed(code) ==
    /\ \A k \in 1..Len(code) :
         /\ \A j \in 1..Len(code[k].body) : code[k].body[j] # Unparsable
         /\ code[k].head = "" => code[k].body # <<>>
         /\ LET opens == code[k].head # "" /\ code[k].body = <<>> IN
            IF k = Len(code) THEN ~opens
            ELSE IF opens THEN code[k + 1].indent = code[k].indent + 1
            ELSE code[k + 1].indent <= code[k].indent
    /\ code # <<>> => code[1].indent = 0

\* The input's statements that are no print call, in order and nesting; with
\* pass, a block left with no statement holds one pass.
RECURSIVE Remaining(_, _, _)
Remaining(code, i, pass) ==
    IF i > Len(code) THEN <<>>
    ELSE LET ln == code[i]
             rest == Remaining(code, i + 1, pass)
             kept == Kept(ln.body)
         IN IF ln.head = ""
           THEN IF kept = <<>> THEN rest
                ELSE <<Line(ln.indent, "", kept)>> \o rest
           ELSE IF ln.body # <<>>
           THEN <<Line(ln.indent, ln.head,
                       IF kept = <<>> /\ pass THEN <<PassStmt>> ELSE kept)>> \o rest
           ELSE IF pass /\ (rest = <<>> \/ rest[1].indent <= ln.indent)
           THEN <<ln, Line(ln.indent + 1, "", <<PassStmt>>)>> \o rest
           ELSE <<ln>> \o rest

Succeeded(r) == r.result.type = "TransformSuccess"
Rewrites == {i \in 1..Len(runs) : Succeeded(runs[i]) /\ ~runs[i].dry_run}

(***************************************************************************)
(* C1 (as stated).  In every transform with dry_run off, the output's       *)
(* statements are exactly the input's statements that are no print call, in *)
(* their order and nesting, and print_statement_count is the number of      *)
(* print calls of the input.                                                *)
(***************************************************************************)
C1_ExactlyTheRest ==
    \A i \in Rewrites :
      /\ runs[i].result.code = Remaining(runs[i].input, 1, FALSE)
      /\ runs[i].print_statement_count = MatchCount(runs[i].input)

(***************************************************************************)
(* C1 (amended).  As above, except that a block left with no statement      *)
(* holds one pass; an input with no print call is returned as it is, with   *)
(* a count of 0.                                                            *)
(***************************************************************************)
C1_TheRestAndPass ==
    \A i \in Rewrites :
      /\ runs[i].result.code = Remaining(runs[i].input, 1, TRUE)
      /\ runs[i].print_statement_count = MatchCount(runs[i].input)
      /\ MatchCount(runs[i].input) = 0 =>
           /\ runs[i].result.code = runs[i].input
           /\ runs[i].print_statement_count = 0

\* A transform that removed two print calls, kept a statement and emptied a block.
C1_Witness ==
    \E i \in Rewrites :
      /\ runs[i].print_statement_count = 2
      /\ AssignInt \in Range(SmallsOf(runs[i].result.code))
      /\ runs[i].result.code # Remaining(runs[i].input, 1, FALSE)

(***************************************************************************)
(* C2.  The matcher, as visit_Expr and leave_Expr apply it, accepts exactly *)
(* the expression statements whose whole value is a call of the bare name   *)
(* print, whatever the arguments: a transform counts the input's bare print *)
(* calls and no other statement, and with dry_run off its output holds none *)
(* of them and still holds every call on an attribute path, call through    *)
(* another name, assigned call, call inside a larger expression and         *)
(* non-call that the input held.                                            *)
(***************************************************************************)
C2_MatcherAcceptsBarePrintCalls ==
    \A i \in 1..Len(runs) :
      Succeeded(runs[i]) =>
        LET before == Range(SmallsOf(runs[i].input))
            after == Range(SmallsOf(runs[i].result.code))
        IN /\ runs[i].print_statement_count =
                Len(SelectSeq(SmallsOf(runs[i].input), LAMBDA s : s \in Accepted))
           /\ ~runs[i].dry_run =>
                /\ after \cap Accepted = {}
                /\ (before \cap Rejected) \subseteq after

\* x.print(1); print() on one line: one match, x.print(1) kept.
C2_Witness ==
    \E i \in Rewrites :
      /\ runs[i].input = <<Line(0, "", <<AttrCall, PrintCall>>)>>
      /\ runs[i].print_statement_count = 1
      /\ runs[i].result.code = <<Line(0, "", <<AttrCall>>)>>

\* Headers and the blocks that follow them, read off the lines.
HeaderIdx(code) ==
    SelectSeq([k \in 1..Len(code) |-> k], LAMBDA k : code[k].head # "")
\* The last line of the block that follows header k.
BlockEnd(code, k) ==
    CHOOSE j \in k..Len(code) :
      /\ \A m \in (k + 1)..j : code[m].indent > code[k].indent
      /\ j = Len(code) \/ code[j + 1].indent <= code[k].indent
Emptied(code, k) ==
    IF code[k].body # <<>>
    THEN \A j \in 1..Len(code[k].body) : IsPrint(code[k].body[j])
    ELSE \A m \in (k + 1)..BlockEnd(code, k) :
           /\ code[m].head = ""
           /\ \A j \in 1..Len(code[m].body) : IsPrint(code[m].body[j])
HoldsOnePass(code, k) ==
    IF code[k].body # <<>>
    THEN code[k].body = <<PassStmt>>
    ELSE /\ BlockEnd(code, k) = k + 1
         /\ code[k + 1] = Line(code[k].indent + 1, "", <<PassStmt>>)
NoEmptyBlock(code) ==
    \A k \in 1..Len(code) :
      code[k].head # "" /\ code[k].body = <<>> =>
        /\ BlockEnd(code, k) > k
        /\ code[k + 1].indent = code[k].indent + 1

(***************************************************************************)
(* C3.  With dry_run off, a block whose statements were all removed holds   *)
(* exactly one pass in the output, and no block of the output is empty.     *)
(* Headers are never removed, so the n-th header of the output is the n-th  *)
(* header of the input.                                                     *)
(***************************************************************************)
C3_EmptiedBlockHoldsPass ==
    \A i \in Rewrites :
      LET hin == HeaderIdx(runs[i].input)
          hout == HeaderIdx(runs[i].result.code)
      IN /\ Len(hout) = Len(hin)
         /\ NoEmptyBlock(runs[i].result.code)
         /\ \A n \in 1..Len(hin) :
              Emptied(runs[i].input, hin[n]) => HoldsOnePass(runs[i].result.code, hout[n])

\* A nested block of two print lines, both removed.
C3_Witness ==
    \E i \in Rewrites :
      \E n \in 1..Len(HeaderIdx(runs[i].input)) :
        LET k == HeaderIdx(runs[i].input)[n] IN
        /\ runs[i].input[k].indent = 1
        /\ runs[i].input[k].body = <<>>
        /\ BlockEnd(runs[i].input, k) = k + 2
        /\ Emptied(runs[i].input, k)
        /\ HoldsOnePass(runs[i].result.code, HeaderIdx(runs[i].result.code)[n])

(***************************************************************************)
(* C4.  A transform with dry_run on returns its input, and counts and       *)
(* records what the transform of the same input with dry_run off counts and *)
(* records.                                                                 *)
(***************************************************************************)
C4_DryRunChangesNothing ==
    /\ \A i \in 1..Len(runs) :
         Succeeded(runs[i]) /\ runs[i].dry_run =>
           /\ runs[i].result.code = runs[i].input
           /\ runs[i].print_statement_count = MatchCount(runs[i].input)
    /\ \A i, j \in 1..Len(runs) :
         /\ runs[i].input = runs[j].input
         /\ runs[i].verbose = runs[j].verbose
         /\ runs[i].dry_run
         /\ ~runs[j].dry_run
         => /\ runs[i].result.type = runs[j].result.type
            /\ runs[i].print_statement_count = runs[j].print_statement_count
            /\ runs[i].print_statements = runs[j].print_statements

\* A verbose dry run and a verbose rewrite of one input with print calls.
C4_Witness ==
    \E i, j \in 1..Len(runs) :
      /\ runs[i].input = runs[j].input
      /\ runs[i].verbose /\ runs[j].verbose
      /\ runs[i].dry_run /\ ~runs[j].dry_run
      /\ runs[i].print_statement_count > 1
      /\ runs[i].print_statements # <<>>
      /\ runs[j].result.code # runs[j].input

(***************************************************************************)
(* C5.  The rewrite of a rewrite's output finds no match and returns that   *)
(* output unchanged.                                                        *)
(***************************************************************************)
C5_RewriteIsIdempotent ==
    \A i \in Rewrites :
      \A j \in 1..Len(runs) :
        j > i /\ ~runs[j].dry_run /\ runs[j].input = runs[i].result.code =>
          /\ Succeeded(runs[j])
          /\ runs[j].print_statement_count = 0
          /\ runs[j].print_statements = <<>>
          /\ runs[j].result.code = runs[j].input

\* The first rewrite removed print calls and left a pass behind.
C5_Witness ==
    \E i \in Rewrites :
      \E j \in Rewrites :
        /\ j > i
        /\ runs[j].input = runs[i].result.code
        /\ runs[i].print_statement_count > 0
        /\ runs[i].result.code # Remaining(runs[i].input, 1, FALSE)
        /\ runs[j].result.code = runs[i].result.code

\* The physical line a statement starts on, read off the lines.
RECURSIVE ExtraLines(_)
ExtraLines(body) ==
    IF body = <<>> THEN 0 ELSE Head(body).lines - 1 + ExtraLines(Tail(body))
RECURSIVE LineStart(_, _)
LineStart(code, i) ==
    IF i = 1 THEN 1 ELSE LineStart(code, i - 1) + 1 + ExtraLines(code[i - 1].body)
StmtStart(code, p) == LineStart(code, p[1]) + ExtraLines(SubSeq(code[p[1]].body, 1, p[2] - 1))
Matched(code) ==
    UNION {{<<i, k>> : k \in {k \in 1..Len(code[i].body) : IsPrint(code[i].body[k])}} :
           i \in 1..Len(code)}
LastAt(code, l) ==
    LET here == {p \in Matched(code) : StmtStart(code, p) = l}
        last == CHOOSE p \in here :
                  \A q \in here : p[1] > q[1] \/ (p[1] = q[1] /\ p[2] >= q[2])
    IN code[last[1]].body[last[2]]

(***************************************************************************)
(* C10.  After a verbose transform the keys of print_statements are exactly *)
(* the start lines (from 1) of the input's print calls, in non-decreasing   *)
(* order; the entry of a line holds the text of the last print call that    *)
(* starts on it.                                                            *)
(***************************************************************************)
C10_KeysAreStartLines ==
    \A i \in 1..Len(runs) :
      Succeeded(runs[i]) /\ runs[i].verbose =>
        LET ps == runs[i].print_statements
            code == runs[i].input
        IN /\ {ps[j].key : j \in 1..Len(ps)} = {StmtStart(code, p) : p \in Matched(code)}
           /\ \A j \in 1..(Len(ps) - 1) : ps[j].key <= ps[j + 1].key
           /\ \A j \in 1..Len(ps) : ps[j].value = code_for_node(LastAt(code, ps[j].key))

\* print(); print(a,
\*                b)      two print calls start on line 1; the entry holds the second.
C10_Witness ==
    \E i \in 1..Len(runs) :
      /\ Succeeded(runs[i]) /\ runs[i].verbose
      /\ runs[i].input = <<Line(0, "", <<PrintCall, PrintMulti>>)>>
      /\ runs[i].print_statement_count = 2
      /\ runs[i].print_statements = <<[key |-> 1, value |-> PrintMulti]>>

(***************************************************************************)
(* C6 (as stated).  The exit status is a function of the final Report: 123  *)
(* when failure_count > 0, 1 when failure_count = 0, dry_run is on and      *)
(* file_count > 0, and 0 in every other case.                               *)
(***************************************************************************)
C6_ExitStatusFromReport ==
    exit_code # NoExit =>
      exit_code = IF report.failure_count > 0 THEN 123
                  ELSE IF dry_run /\ report.file_count > 0 THEN 1
                  ELSE 0

\* The same, of the runs that end in ctx.exit.
C6_ExitStatusOfCtxExit == pc = "exited" => C6_ExitStatusFromReport

(***************************************************************************)
(* C7.  A file's text changes only in a check_file call on a file that is   *)
(* not ignored, whose transform succeeded with at least one match, with     *)
(* dry_run off; a file that could not be read or parsed, a file with no     *)
(* match, any file of a dry run and any ignored file holds after the run    *)
(* what it held before.                                                     *)
(***************************************************************************)
C7_RewrittenOnlyAfterSuccess ==
    /\ \A k \in 1..Len(log) :
         log[k].left # log[k].code =>
           /\ log[k].filename \notin ignore
           /\ log[k].outcome = "success"
           /\ WellFormed(log[k].code)
           /\ MatchCount(log[k].code) > 0
           /\ ~dry_run
    /\ \A f \in Files :
         disk[f] # disk0[f] =>
           /\ f \notin ignore
           /\ ~dry_run
           /\ WellFormed(disk0[f])
           /\ MatchCount(disk0[f]) > 0
           /\ \E k \in 1..Len(log) : log[k].filename = f /\ log[k].left # log[k].code

\* A finished run that rewrote one file and left alone one it could not parse.
C7_Witness ==
    /\ pc = "exited"
    /\ \E j, k \in 1..Len(log) :
         /\ log[j].written = "yes" /\ log[j].left # log[j].code
         /\ log[j].left = disk[log[j].filename]
         /\ log[k].outcome = "transform failure"
         /\ disk[log[k].filename] = disk0[log[k].filename]

\* What a run was asked to check, what it checked, and the errors it met.
NonIgnored == SelectSeq(filenames, LAMBDA f : f \notin ignore)
Checked == SelectSeq(log, LAMBDA e : e.outcome # "ignored")
Errors ==
    SelectSeq(log, LAMBDA e : e.outcome \in {"read failure", "transform failure"}
                              \/ e.written = "failed")
Summarised ==
    /\ stdout # <<>>
    /\ stdout[Len(stdout)].msg \in {"summary", "No print statements found. All good to go."}

(***************************************************************************)
(* C8 (as stated).  Every file name that is not ignored is checked once, in *)
(* input order, whatever became of the files before it: no per-file error   *)
(* (reading, parsing, writing back) ends the run early, each such error     *)
(* adds to failure_count, and the run reaches its summary and exit status.  *)
(***************************************************************************)
C8_EveryFileCheckedToTheEnd ==
    /\ pc # "raised"
    /\ report.failure_count = Len(Errors)
    /\ pc = "exited" /\ filenames # <<>> =>
         /\ [k \in 1..Len(Checked) |-> Checked[k].filename] = NonIgnored
         /\ Summarised

\* The same, as long as no write has raised.
C8_UnlessAWriteRaises ==
    (\A k \in 1..Len(log) : log[k].written # "failed") => C8_EveryFileCheckedToTheEnd

(***************************************************************************)
(* C9.  Each check_file call changes the Report in exactly one way: by      *)
(* file_count + 1 and print_statement_count + the file's matches when the   *)
(* transform succeeded with a match; by failure_count + 1 when the file     *)
(* could not be read or parsed; not at all when it succeeded without a      *)
(* match.  An ignored file changes nothing.                                 *)
(***************************************************************************)
C9_OneChangePerFile ==
    /\ \A k \in 1..Len(log) :
         LET e == log[k] IN
         /\ e.before = IF k = 1 THEN Report(dry_run, verbose) ELSE log[k - 1].after
         /\ e.outcome = "ignored" => e.after = e.before
         /\ e.outcome = "read failure" =>
              e.after = [e.before EXCEPT !.failure_count = @ + 1]
         /\ e.outcome \in {"success", "transform failure"} =>
              IF ~WellFormed(e.code)
              THEN /\ e.outcome = "transform failure"
                   /\ e.after = [e.before EXCEPT !.failure_count = @ + 1]
              ELSE /\ e.outcome = "success"
                   /\ IF MatchCount(e.code) > 0
                      THEN e.after = [e.before EXCEPT
                                        !.file_count = @ + 1,
                                        !.print_statement_count = @ + MatchCount(e.code)]
                      ELSE e.after = e.before
    /\ log # <<>> => report = log[Len(log)].after

\* A finished run of three files: one rewritten, one without a match, one
\* that could not be parsed.
C9_Witness ==
    /\ pc = "exited"
    /\ \E i, j, k \in 1..Len(log) :
         /\ log[i].outcome = "success" /\ log[i].count > 1
         /\ log[j].outcome = "success" /\ log[j].count = 0
         /\ log[k].outcome = "transform failure"
    /\ report.file_count = 1 /\ report.failure_count = 1

\* The report lines before those of entry i: the file name and the physical
\* lines of the entries before it.
RECURSIVE LinesBefore(_, _)
LinesBefore(d, i) ==
    IF i = 1 THEN 1 ELSE LinesBefore(d, i - 1) + d[i - 1].value.lines

(***************************************************************************)
(* C11.  format_verbose_output returns the empty text for the empty         *)
(* mapping; otherwise the file name, then, entry by entry in the mapping's  *)
(* order, one line per physical line of the entry's statement, numbered     *)
(* from the entry's key: a statement of k lines at n gives n .. n + k - 1.  *)
(***************************************************************************)
C11_OneLinePerPhysicalLine ==
    formatted.done =>
      IF mapping = <<>> THEN formatted.text = <<>>
      ELSE /\ Len(formatted.text) = LinesBefore(mapping, Len(mapping) + 1)
           /\ formatted.text[1] = [lineno |-> 0, line |-> fname]
           /\ \A i \in 1..Len(mapping) :
                \A j \in 1..mapping[i].value.lines :
                  formatted.text[LinesBefore(mapping, i) + j] =
                    [lineno |-> mapping[i].key + j - 1,
                     line |-> [of |-> mapping[i].value, part |-> j]]

\* {3: "print(a,\n b)", 1: "print()"}: the file name, lines 3 and 4, line 1.
C11_Witness ==
    /\ formatted.done
    /\ mapping = <<[key |-> 3, value |-> PrintMulti], [key |-> 1, value |-> PrintCall]>>
    /\ Len(formatted.text) = 4
    /\ formatted.text[3].lineno = 4
    /\ formatted.text[4].lineno = 1

(***************************************************************************)
(* C12 (as stated).  At the end of every traversal the number of entries of *)
(* print_statements equals print_statement_count.                           *)
(***************************************************************************)
C12_EntriesEqualCount ==
    \A i \in 1..Len(runs) :
      Succeeded(runs[i]) =>
        Len(runs[i].print_statements) = runs[i].print_statement_count

(***************************************************************************)
(* C12 (amended).  At the end of every traversal print_statements has no    *)
(* entry when verbose is off, and one entry per distinct start line of the  *)
(* input's print calls when verbose is on; it never has more entries than   *)
(* print_statement_count, and has as many exactly when nothing matched or   *)
(* verbose is on and no two print calls start on the same line.             *)
(***************************************************************************)
C12_EntriesAreDistinctStartLines ==
    \A i \in 1..Len(runs) :
      Succeeded(runs[i]) =>
        LET ps == runs[i].print_statements
            count == runs[i].print_statement_count
            code == runs[i].input
            starts == {StmtStart(code, p) : p \in Matched(code)}
        IN /\ Len(ps) = IF runs[i].verbose THEN Cardinality(starts) ELSE 0
           /\ Len(ps) <= count
           /\ Len(ps) = count <=>
                \/ count = 0
                \/ runs[i].verbose /\ Cardinality(starts) = Cardinality(Matched(code))

\* One input with three print calls, two of them on one line, traversed with
\* verbose on (two entries) and with verbose off (none).
C12_Witness ==
    \E i, j \in 1..Len(runs) :
      /\ Succeeded(runs[i]) /\ Succeeded(runs[j])
      /\ runs[i].input = runs[j].input
      /\ runs[i].verbose /\ ~runs[j].verbose
      /\ runs[i].print_statement_count = 3 /\ runs[j].print_statement_count = 3
      /\ Len(runs[i].print_statements) = 2
      /\ runs[j].print_statements = <<>>
====
